---------------------------- MODULE Spec2Model ----------------------------
(***************************************************************************)
(* A model of scripts/!adetailer.py: the AfterDetailerScript hooks         *)
(* (process, postprocess_image), the per-stage driver _postprocess_image,  *)
(* and the job builder get_i2i_p with the helpers it calls.                *)
(*                                                                         *)
(* Conventions                                                             *)
(*  - A Python str that the code takes apart (the comma-separated option   *)
(*    ad_script_names, a script's file path) is a sequence of tokens: a    *)
(*    token is one separator character (",", " ", "/", ".") or a maximal   *)
(*    run of other characters.  split, strip and Path.stem work on these.  *)
(*  - An image is a number naming an image object: 0 is the source image   *)
(*    of the postprocess_image call, k >= 1 the image returned by the k-th *)
(*    regeneration-engine call made for that source image.                 *)
(*  - The detector, mask_preprocess, the regeneration engine (process_     *)
(*    images), images.save_image and the params.txt write are external:    *)
(*    their results are chosen nondeterministically.                       *)
(***************************************************************************)
EXTENDS Integers, Sequences, FiniteSets, TLC

VARIABLES
    p,              \* the parent job (StableDiffusionProcessing) of the request
    opts,           \* shared.opts.data: a dict, keys may be absent
    args_,          \* the script arguments of the hook calls (one dict per stage)
    enabled,        \* result of enable_check(*args_)
    cn_available,   \* ControlNetExt.cn_available once initialised
    controlnet_ext, \* self.controlnet_ext: "None" or "ControlNetExt"
    model_mapping,  \* the model registry: set of registered names
    torch_load,     \* the global torch.load: the loader in place or "unsafe_torch_load"
    pc,             \* position of the hook: idle, stage, detect, mask, engine, hooked, raised, built
    pp_image,       \* pp.image, the image slot shared with the caller
    init_image,     \* postprocess_image's copy of the image at entry
    arg_list,       \* get_args(*args_)
    n,              \* enumerate index of the current stage (0-based)
    i2i,            \* the job built for the current stage
    seed,           \* _postprocess_image's local seed
    subseed,        \* _postprocess_image's local subseed
    saved_load,     \* ChangeTorchLoad.orig
    masks,          \* mask_preprocess(pred.masks)
    j,              \* loop index over masks (0-based)
    p2,             \* the per-mask copy of i2i
    is_processed,   \* postprocess_image's local flag
    calls,          \* log: the engine calls made for the current image
    detections,     \* log: the detector calls made for the current image
    saved,          \* log: images.save_image calls made for the current image
    params_txt,     \* log: write_params_txt attempts of the request
    raised,         \* the exception that left postprocess_image, or "none"
    message,        \* the parts interpolated into that exception's message
    nested,         \* number of hook bodies that ran on one of the pipeline's own jobs
    images_done,    \* number of postprocess_image calls made on the parent job
    platform_system,    \* platform.system()
    cmd_opts,           \* modules.shared.cmd_opts: attributes may be absent
    ultralytics_device  \* self.ultralytics_device, set by __init__

vars == <<p, opts, args_, enabled, cn_available, controlnet_ext, model_mapping,
          torch_load, pc, pp_image, init_image, arg_list, n, i2i, seed, subseed,
          saved_load, masks, j, p2, is_processed, calls, detections, saved,
          params_txt, raised, message, nested, images_done, platform_system,
          cmd_opts, ultralytics_device>>

-----------------------------------------------------------------------------
(* Bounds of the model *)

MaxStages == 3
MaxMasks == 2
MaxImages == 2
MaxIdx == 5

-----------------------------------------------------------------------------
(* Strings as token sequences *)

Str(w) == <<w>>

RECURSIVE FirstIndex(_, _, _)
FirstIndex(s, c, k) ==
    IF k > Len(s) THEN 0
    ELSE IF s[k] = c THEN k
    ELSE FirstIndex(s, c, k + 1)

RECURSIVE LastIndex(_, _, _)
LastIndex(s, c, k) ==
    IF k < 1 THEN 0
    ELSE IF s[k] = c THEN k
    ELSE LastIndex(s, c, k - 1)

\* str.split(c): the pieces between the occurrences of c (one piece when none)
RECURSIVE Split(_, _)
Split(s, c) ==
    LET k == FirstIndex(s, c, 1)
    IN  IF k = 0 THEN <<s>>
        ELSE <<SubSeq(s, 1, k - 1)>> \o Split(SubSeq(s, k + 1, Len(s)), c)

\* str.strip(): leading and trailing whitespace removed
RECURSIVE LStrip(_)
LStrip(s) == IF s # <<>> /\ Head(s) = " " THEN LStrip(Tail(s)) ELSE s

RECURSIVE RStrip(_)
RStrip(s) ==
    IF s # <<>> /\ s[Len(s)] = " " THEN RStrip(SubSeq(s, 1, Len(s) - 1)) ELSE s

Strip(s) == RStrip(LStrip(s))

\* Path(filepath).stem: the final path component without its last suffix
Stem(filepath) ==
    LET slash == LastIndex(filepath, "/", Len(filepath))
        name  == SubSeq(filepath, slash + 1, Len(filepath))
        dot   == LastIndex(name, ".", Len(name))
    IN  IF dot > 1 /\ dot < Len(name) THEN SubSeq(name, 1, dot - 1) ELSE name

Range(s) == {s[k] : k \in 1..Len(s)}

\* opts.data.get(key, default)
OptGet(data, key, default) == IF key \in DOMAIN data THEN data[key] ELSE default

-----------------------------------------------------------------------------
(* Program constants *)

DefaultScriptNames ==
    <<"dynamic_prompting", ",", "dynamic_thresholding", ",", "wildcards", ",",
      "wildcard_recursive">>
LegacySamplers == {"PLMS", "UniPC"}
DefaultSampler == "Euler"
NoImage == -1
NoMask == [det |-> 0, k |-> 0]

-----------------------------------------------------------------------------
(* The job builder: get_prompt, get_seed, get_width_height, get_steps,     *)
(* get_cfg_scale, script_filter, get_i2i_p.  Python lists are 0-based,     *)
(* sequences 1-based: all_prompts[i] is q.all_prompts[i + 1].              *)

\* get_prompt without the wraparound branch: an index past the list falls back
\* to the base prompt
get_prompt_nowrap(q, args) ==
    LET i == q.idx
        prompt ==
            IF args.ad_prompt # "" THEN args.ad_prompt
            ELSE IF q.all_prompts = <<>> THEN q.prompt
            ELSE IF i < Len(q.all_prompts) THEN q.all_prompts[i + 1]
            ELSE q.prompt
        negative_prompt ==
            IF args.ad_negative_prompt # "" THEN args.ad_negative_prompt
            ELSE IF q.all_negative_prompts = <<>> THEN q.negative_prompt
            ELSE IF i < Len(q.all_negative_prompts) THEN q.all_negative_prompts[i + 1]
            ELSE q.negative_prompt
    IN  <<prompt, negative_prompt>>

get_prompt(q, args) ==
    LET i == q.idx
        prompt ==
            IF args.ad_prompt # "" THEN args.ad_prompt
            ELSE IF q.all_prompts = <<>> THEN q.prompt
            ELSE IF i < Len(q.all_prompts) THEN q.all_prompts[i + 1]
            ELSE q.all_prompts[(i % Len(q.all_prompts)) + 1]
        negative_prompt ==
            IF args.ad_negative_prompt # "" THEN args.ad_negative_prompt
            ELSE IF q.all_negative_prompts = <<>> THEN q.negative_prompt
            ELSE IF i < Len(q.all_negative_prompts) THEN q.all_negative_prompts[i + 1]
            ELSE q.all_negative_prompts[(i % Len(q.all_negative_prompts)) + 1]
    IN  <<prompt, negative_prompt>>

\* get_seed that ignores the per-image lists
get_seed_base_only(q) == <<q.seed, q.subseed>>

\* get_seed without the wraparound branches: an index past a list falls back
\* to the base value
get_seed_nowrap(q) ==
    <<IF q.idx < Len(q.all_seeds) THEN q.all_seeds[q.idx + 1] ELSE q.seed,
      IF q.idx < Len(q.all_subseeds) THEN q.all_subseeds[q.idx + 1] ELSE q.subseed>>

get_seed(q) ==
    LET i == q.idx
        s ==
            IF q.all_seeds = <<>> THEN q.seed
            ELSE IF i < Len(q.all_seeds) THEN q.all_seeds[i + 1]
            ELSE q.all_seeds[(i % Len(q.all_seeds)) + 1]
        t ==
            IF q.all_subseeds = <<>> THEN q.subseed
            ELSE IF i < Len(q.all_subseeds) THEN q.all_subseeds[i + 1]
            ELSE q.all_subseeds[(i % Len(q.all_subseeds)) + 1]
    IN  <<s, t>>

\* get_width_height that takes the height from the parent job in any case
get_width_height_mixed(q, args) ==
    <<IF args.ad_use_inpaint_width_height THEN args.ad_inpaint_width ELSE q.width,
      q.height>>

get_width_height(q, args) ==
    IF args.ad_use_inpaint_width_height
    THEN <<args.ad_inpaint_width, args.ad_inpaint_height>>
    ELSE <<q.width, q.height>>

get_steps(q, args) == IF args.ad_use_steps THEN args.ad_steps ELSE q.steps

get_cfg_scale(q, args) ==
    IF args.ad_use_cfg_scale THEN args.ad_cfg_scale ELSE q.cfg_scale

\* script_names_set without lines 545-546
script_names_set_no_controlnet(data, args) ==
    LET ad_script_names == OptGet(data, "ad_script_names", DefaultScriptNames)
        pieces == Range(Split(ad_script_names, ","))
    IN  pieces \cup {Strip(s) : s \in pieces}

\* script_names_set with the pieces as written only
script_names_set_unstripped(data, args) ==
    LET ad_script_names == OptGet(data, "ad_script_names", DefaultScriptNames)
    IN  Range(Split(ad_script_names, ","))
            \cup (IF args.ad_controlnet_model # "None" THEN {Str("controlnet")} ELSE {})

\* lines 538-546: the names script_filter keeps: every piece of
\* ad_script_names as written and stripped, plus "controlnet" when a
\* controlnet model is selected
script_names_set(data, args) ==
    LET ad_script_names == OptGet(data, "ad_script_names", DefaultScriptNames)
        pieces == Range(Split(ad_script_names, ","))
    IN  pieces \cup {Strip(s) : s \in pieces}
            \cup (IF args.ad_controlnet_model # "None" THEN {Str("controlnet")} ELSE {})

\* lines 548-553
RECURSIVE filtered_alwayson(_, _)
filtered_alwayson(scripts, names) ==
    IF scripts = <<>> THEN <<>>
    ELSE (IF Stem(Head(scripts).filename) \in names THEN <<Head(scripts)>> ELSE <<>>)
             \o filtered_alwayson(Tail(scripts), names)

\* lines 531-556; the returned runner is a copy: the parent's runner q.scripts
\* is not written
script_filter(q, data, args) ==
    IF ~OptGet(data, "ad_only_seleted_scripts", TRUE)
    THEN q.scripts
    ELSE [alwayson_scripts |->
            filtered_alwayson(q.scripts.alwayson_scripts, script_names_set(data, args))]

\* lines 565-567 with only the first legacy name in the list
sampler_of_plms_only(q) ==
    IF q.sampler_name = "PLMS" THEN DefaultSampler ELSE q.sampler_name

\* lines 565-567
sampler_of(q) ==
    IF q.sampler_name \in LegacySamplers THEN DefaultSampler ELSE q.sampler_name

\* update_controlnet_args(i2i, args), after init_controlnet_ext: the external
\* ControlNetExt.update_scripts_args rewrites the sub-job's own script_args
update_controlnet_args(job, args, available) ==
    IF available /\ args.ad_controlnet_model # "None"
    THEN [job EXCEPT !.script_args =
             @ \o <<[cn_model |-> args.ad_controlnet_model,
                     cn_weight |-> args.ad_controlnet_weight]>>]
    ELSE job

\* lines 558-609, with the value line 605 gives the marker as a parameter
build_job(q, data, args, image, available, marker) ==
    LET pr == get_prompt(q, args)
        sd == get_seed(q)
        wh == get_width_height(q, args)
        job == [init_images |-> <<image>>,
                image_mask |-> NoMask,
                prompt |-> pr[1], negative_prompt |-> pr[2],
                seed |-> sd[1], subseed |-> sd[2],
                sampler_name |-> sampler_of(q),
                batch_size |-> 1, n_iter |-> 1,
                steps |-> get_steps(q, args),
                cfg_scale |-> get_cfg_scale(q, args),
                width |-> wh[1], height |-> wh[2],
                do_not_save_samples |-> TRUE, do_not_save_grid |-> TRUE,
                scripts |-> script_filter(q, data, args),
                script_args |-> q.script_args,
                disable_adetailer |-> marker]
    IN  IF args.ad_controlnet_model # "None"
        THEN update_controlnet_args(job, args, available)
        ELSE job

\* get_i2i_p without line 605: the built job carries no marker
get_i2i_p_unmarked(q, data, args, image, available) ==
    build_job(q, data, args, image, available, FALSE)

get_i2i_p(q, data, args, image, available) ==
    build_job(q, data, args, image, available, TRUE)

\* the parent job after get_i2i_p has written the sub-job's runner and
\* script_args: a write reaches the parent job's own object when the sub-job
\* holds that object itself and not a copy of it
parent_written_through(q, data, args, image, available, runner_copied, args_copied) ==
    LET job == get_i2i_p(q, data, args, image, available)
    IN  [q EXCEPT !.scripts = IF runner_copied THEN @ ELSE job.scripts,
                  !.script_args = IF args_copied THEN @ ELSE job.script_args]

\* get_i2i_p with script_runner = p.scripts in script_filter
parent_after_get_i2i_p_shared_runner(q, data, args, image, available) ==
    parent_written_through(q, data, args, image, available, FALSE, TRUE)

\* line 532: script_runner = copy(p.scripts); line 604: deepcopy(p.script_args)
parent_after_get_i2i_p(q, data, args, image, available) ==
    parent_written_through(q, data, args, image, available, TRUE, TRUE)

-----------------------------------------------------------------------------
(* Steps of the hooks and of _postprocess_image *)

\* getattr(cmd_opts, name, False)
GetAttr(obj, name, default) == IF name \in DOMAIN obj THEN obj[name] ELSE default

\* get_ultralytics_device that looks at lowvram only
get_ultralytics_device_lowvram_only(system, copts) ==
    IF system = "Darwin" THEN ""
    ELSE IF GetAttr(copts, "lowvram", FALSE) THEN "cpu"
    ELSE ""

\* lines 443-453: device = "" means autodetect
get_ultralytics_device(system, copts) ==
    IF system = "Darwin" THEN ""
    ELSE IF \E vram \in {"lowvram", "medvram"} : GetAttr(copts, vram, FALSE) THEN "cpu"
    ELSE ""

\* lines 635-636 and 709-710: getattr(p, "_disable_adetailer", False)
hook_returns_early(q) == q.disable_adetailer

\* line 715 with the default of getattr taken as 0
next_idx_default_zero(q) == IF q.idx = -1 THEN 1 ELSE q.idx + 1

\* line 715: p._idx = getattr(p, "_idx", -1) + 1; an absent _idx is -1
next_idx(q) == q.idx + 1

\* lines 75-77: the number and its suffix
ordinal(k) ==
    <<k, IF 11 <= k % 100 /\ k % 100 <= 13 THEN "th"
         ELSE CASE k % 10 = 1 -> "st"
                [] k % 10 = 2 -> "nd"
                [] k % 10 = 3 -> "rd"
                [] OTHER -> "th">>

\* ALL_ARGS.attrs: the recognized fields, in their order
ALL_ARGS_attrs ==
    <<"ad_model", "ad_prompt", "ad_negative_prompt", "ad_conf",
      "ad_use_inpaint_width_height", "ad_inpaint_width", "ad_inpaint_height",
      "ad_use_steps", "ad_steps", "ad_use_cfg_scale", "ad_cfg_scale",
      "ad_controlnet_model", "ad_controlnet_weight">>

\* the defaults of ADetailerArgs
ArgsDefaults ==
    [ad_model |-> <<"None">>,
     ad_prompt |-> "", ad_negative_prompt |-> "",
     ad_conf |-> 30,
     ad_controlnet_model |-> "None", ad_controlnet_weight |-> 1,
     ad_use_inpaint_width_height |-> FALSE,
     ad_inpaint_width |-> 512, ad_inpaint_height |-> 512,
     ad_use_steps |-> FALSE, ad_steps |-> 28,
     ad_use_cfg_scale |-> FALSE, ad_cfg_scale |-> 7]

\* the python types ADetailerArgs accepts for a field
FieldTypes(attr) ==
    IF attr \in {"ad_model", "ad_prompt", "ad_negative_prompt", "ad_controlnet_model"}
    THEN {"str"}
    ELSE IF attr \in {"ad_use_inpaint_width_height", "ad_use_steps", "ad_use_cfg_scale"}
    THEN {"bool"}
    ELSE {"int", "float"}

\* ADetailerArgs(**d) passes validation: every given field has an accepted
\* type, and the detection threshold lies within its range
validates(d) ==
    \A attr \in DOMAIN d :
        /\ d[attr].t \in FieldTypes(attr)
        /\ attr = "ad_conf" => (0 <= d[attr].v /\ d[attr].v <= 100)

\* ADetailerArgs(**d) of a valid d: a missing field takes its default
ADetailerArgs(d) ==
    [attr \in Range(ALL_ARGS_attrs) |->
        IF attr \in DOMAIN d THEN d[attr].v ELSE ArgsDefaults[attr]]

\* repr(x): a string is quoted
repr(x) == IF x.t = "str" THEN <<"'", x.v, "'">> ELSE <<x.v>>

\* lines 422-426: one line per recognized field, f"{attr}: {arg} ({dtype})"
field_dump(d) ==
    [k \in 1..Len(ALL_ARGS_attrs) |->
        LET attr == ALL_ARGS_attrs[k]
        IN  IF attr \in DOMAIN d /\ d[attr].t # "NoneType"
            THEN <<attr, repr(d[attr]), d[attr].t>>
            ELSE <<attr, "DEFAULT", "NoneType">>]

\* lines 415-432: the loop of get_args from its k-th item on; off shifts the
\* number that is reported
RECURSIVE validate_from(_, _, _, _)
validate_from(args, k, acc, off) ==
    IF k > Len(args) THEN [ok |-> TRUE, error |-> "none", message |-> <<>>, list |-> acc]
    ELSE LET arg_dict == args[k]
         IN  IF arg_dict.kind # "dict"
             THEN [ok |-> FALSE, error |-> "TypeError",
                   message |-> <<"Non-mapping arguments are sent",
                                 ordinal(k + off), arg_dict>>,
                   list |-> <<>>]
             ELSE IF ~validates(arg_dict.val)
             THEN [ok |-> FALSE, error |-> "ValueError",
                   message |-> <<"ValidationError when validating",
                                 ordinal(k + off), field_dump(arg_dict.val)>>,
                   list |-> <<>>]
             ELSE validate_from(args, k + 1, Append(acc, ADetailerArgs(arg_dict.val)), off)

\* the ArgumentSets of the stage arguments before the first one that fails
RECURSIVE valid_prefix(_, _)
valid_prefix(args, k) ==
    IF k > Len(args) \/ args[k].kind # "dict" \/ ~validates(args[k].val) THEN <<>>
    ELSE <<ADetailerArgs(args[k].val)>> \o valid_prefix(args, k + 1)

\* get_args that stops at the first failing stage argument without raising
get_args_valid_prefix(a) ==
    [ok |-> TRUE, error |-> "none", message |-> <<>>,
     list |-> valid_prefix(IF a[1].kind = "bool" THEN Tail(a) ELSE a, 1)]

\* get_args that numbers the stages by their position in args_
get_args_counts_flag(a) ==
    IF a[1].kind = "bool" THEN validate_from(Tail(a), 1, <<>>, 1)
    ELSE validate_from(a, 1, <<>>, 0)

\* lines 407-434: the validated ArgumentSets, one per stage dict, or the error
get_args(a) ==
    validate_from(IF a[1].kind = "bool" THEN Tail(a) ELSE a, 1, <<>>, 0)

\* a sentinel test that never matches
stage_skipped_never(args) == FALSE

\* line 721: the skip sentinel
stage_skipped(args) == args.ad_model = Str("None")

\* str.lower() on the tokens of a model name
Lower(s) == [k \in 1..Len(s) |-> IF s[k] = "MediaPipe" THEN "mediapipe" ELSE s[k]]

\* line 656 without lower()
is_mediapipe_case_sensitive(args) ==
    args.ad_model # <<>> /\ args.ad_model[1] = "mediapipe"

\* line 656: args.ad_model.lower().startswith("mediapipe")
is_mediapipe(args) ==
    LET low == Lower(args.ad_model) IN low # <<>> /\ low[1] = "mediapipe"

\* lines 628-632: get_ad_model raises when the name is not registered
get_ad_model_fails(name, mapping) == name \notin mapping

\* line 630: the message names the requested model and list(model_mapping.keys())
not_found_message(name, mapping) == <<"Model not found", name, mapping>>

\* lines 658-665: the keyword arguments of the predictor call
predictor_kwargs(mediapipe, device) ==
    IF mediapipe THEN {} ELSE {<<"device", device>>}

\* an engine exception swallowed by the mask loop
swallow_engine_error(exc) == IF exc = "engine" THEN "stage" ELSE "raised"

\* lines 668, 694, 723: no try block encloses the detector call, the engine
\* call or the stage loop: the exception leaves postprocess_image
after_exception(exc) == "raised"

\* a loader that is put back only when the detector returns
load_after_detector_return_only(orig, current, exc) ==
    IF exc THEN current ELSE orig

\* lines 66-68, 667-668: __exit__ runs when the with block is left, by return
\* or by exception, and assigns self.orig
load_after_detector(orig, current, exc) == orig

\* lines 672-676: position after the detection: with no masks the stage
\* returns False and the loop of postprocess_image goes on
nothing_detected_raises(ms) == IF ms = <<>> THEN "raised" ELSE "mask"

after_detection(ms) == IF ms = <<>> THEN "stage" ELSE "mask"

\* lines 691-693 with the first mask for every copy
job_for_mask_first(job, ms, jj) == [job EXCEPT !.image_mask = ms[1]]

\* lines 691-693: p2 as handed to process_images for mask jj
job_for_mask(job, ms, jj) == [job EXCEPT !.image_mask = ms[jj + 1]]

\* lines 696-700 with the image of the stage's job kept
next_p2_stale_image(job, out, s, t, jj) ==
    [job EXCEPT !.seed = s + jj + 1, !.subseed = t + jj + 1]

\* lines 696-700 with the seeds advanced from the job's own seed by one
next_p2_seed_off(job, out, s, t, jj) ==
    [job EXCEPT !.init_images = <<out>>, !.seed = s + jj, !.subseed = t + jj]

\* the image slot written after every mask
slot_after_every_mask(image, out, jj, ms) == out

\* lines 691-704: pp.image is assigned once, after the loop over the masks
slot_after_mask(image, out, jj, ms) == IF jj + 1 = Len(ms) THEN out ELSE image

\* lines 696-700: the copy of i2i for the next mask
next_p2(job, out, s, t, jj) ==
    [job EXCEPT !.init_images = <<out>>, !.seed = s + jj + 1, !.subseed = t + jj + 1]

\* lines 725-728 without the is_processed test
before_save_unconditional(processed_flag, data) ==
    OptGet(data, "ad_save_images_before", FALSE)

\* lines 725-728 and 615: the "before" image is saved
before_save_due(processed_flag, data) ==
    processed_flag /\ OptGet(data, "ad_save_images_before", FALSE)

\* line 731 with the test against the length itself
params_due_off_by_one(q) == q.idx = Len(q.all_prompts)

\* line 731: the params.txt write is due
params_due(q) == q.idx = Len(q.all_prompts) - 1

\* lines 730-734: an exception of the write is caught and dropped
after_params_write(ok) == "idle"

SourceImage == 0

Locals == <<init_image, arg_list, n, i2i, seed, subseed, saved_load, masks, j, p2,
            is_processed>>
Request == <<opts, args_, enabled, cn_available, model_mapping, platform_system,
             cmd_opts, ultralytics_device>>

\* postprocess_image, lines 708-719: entry of the hook on the parent job
PostprocessImage ==
    /\ pc = "idle"
    /\ images_done < MaxImages
    /\ images_done' = images_done + 1
    /\ pp_image' = SourceImage
    /\ calls' = <<>>
    /\ detections' = <<>>
    /\ saved' = <<>>
    /\ IF hook_returns_early(p) \/ ~enabled
       THEN UNCHANGED <<p, pc, Locals, raised, message>>
       ELSE /\ p' = [p EXCEPT !.idx = next_idx(p)]
            /\ init_image' = SourceImage
            /\ LET r == get_args(args_)
               IN  IF r.ok
                   THEN /\ arg_list' = r.list
                        /\ is_processed' = FALSE
                        /\ n' = 0
                        /\ pc' = "stage"
                        /\ UNCHANGED <<raised, message>>
                   ELSE /\ pc' = after_exception(r.error)
                        /\ raised' = r.error
                        /\ message' = r.message
                        /\ UNCHANGED <<arg_list, is_processed, n>>
            /\ UNCHANGED <<i2i, seed, subseed, saved_load, masks, j, p2>>
    /\ UNCHANGED <<Request, controlnet_ext, torch_load, nested, params_txt>>

\* lines 720-722: a stage whose selector is the skip sentinel
StageSkip ==
    /\ pc = "stage"
    /\ n < Len(arg_list)
    /\ stage_skipped(arg_list[n + 1])
    /\ n' = n + 1
    /\ UNCHANGED <<p, Request, controlnet_ext, torch_load, pc, pp_image, init_image,
                   arg_list, i2i, seed, subseed, saved_load, masks, j, p2,
                   is_processed, calls, detections, saved, params_txt, raised, message,
                   nested, images_done>>

\* _postprocess_image, lines 651-668: build the job, pick the predictor,
\* enter ChangeTorchLoad and call the detector
StageBegin ==
    /\ pc = "stage"
    /\ n < Len(arg_list)
    /\ ~stage_skipped(arg_list[n + 1])
    /\ LET args == arg_list[n + 1]
           sd == get_seed(p)
       IN  /\ i2i' = get_i2i_p(p, opts, args, pp_image, cn_available)
           /\ p' = parent_after_get_i2i_p(p, opts, args, pp_image, cn_available)
           /\ controlnet_ext' =
                 IF args.ad_controlnet_model # "None" THEN "ControlNetExt"
                 ELSE controlnet_ext
           /\ seed' = sd[1]
           /\ subseed' = sd[2]
           /\ IF ~is_mediapipe(args) /\ get_ad_model_fails(args.ad_model, model_mapping)
              THEN /\ pc' = after_exception("ValueError")
                   /\ raised' = "ValueError"
                   /\ message' = not_found_message(args.ad_model, model_mapping)
                   /\ UNCHANGED <<torch_load, saved_load, detections>>
              ELSE /\ saved_load' = torch_load
                   /\ torch_load' = "unsafe_torch_load"
                   /\ detections' = Append(detections,
                          [n |-> n, idx |-> p.idx, image |-> pp_image, model |-> args.ad_model,
                           predictor |-> IF is_mediapipe(args) THEN "mediapipe_predict"
                                         ELSE "ultralytics_predict",
                           kwargs |-> predictor_kwargs(is_mediapipe(args),
                                                       ultralytics_device),
                           nmasks |-> -1])
                   /\ pc' = "detect"
                   /\ UNCHANGED <<raised, message>>
    /\ UNCHANGED <<Request, pp_image, init_image, arg_list, n, masks, j, p2,
                   is_processed, calls, saved, params_txt, nested, images_done>>

\* lines 668-691: the detector returns k processed masks
DetectorReturn ==
    /\ pc = "detect"
    /\ \E k \in 0..MaxMasks :
        LET ms == [m \in 1..k |-> [det |-> Len(detections), k |-> m]]
        IN  /\ masks' = ms
            /\ detections' = [detections EXCEPT ![Len(detections)].nmasks = k]
            /\ pc' = after_detection(ms)
            /\ IF ms = <<>>
               THEN /\ n' = n + 1
                    /\ UNCHANGED <<saved, j, p2, raised, message>>
               ELSE /\ saved' =
                          IF OptGet(opts, "ad_save_previews", FALSE)
                          THEN Append(saved, [suffix |-> "-ad-preview", n |-> n,
                                              image |-> NoImage])
                          ELSE saved
                    /\ j' = 0
                    /\ p2' = i2i
                    /\ UNCHANGED <<n, raised, message>>
    /\ torch_load' = load_after_detector(saved_load, torch_load, FALSE)
    /\ UNCHANGED <<p, Request, controlnet_ext, pp_image, init_image, arg_list, i2i,
                   seed, subseed, saved_load, is_processed, calls, params_txt,
                   nested, images_done>>

\* line 668: the detector raises; ChangeTorchLoad.__exit__ runs, nothing catches
DetectorRaise ==
    /\ pc = "detect"
    /\ torch_load' = load_after_detector(saved_load, torch_load, TRUE)
    /\ pc' = after_exception("detector")
    /\ raised' = "detector"
    /\ message' = <<"detector">>
    /\ UNCHANGED <<p, Request, controlnet_ext, pp_image, Locals, calls, detections,
                   saved, params_txt, nested, images_done>>

\* lines 693-694: process_images(p2) is entered for mask j
ProcessImages ==
    /\ pc = "mask"
    /\ j < Len(masks)
    /\ p2' = job_for_mask(p2, masks, j)
    /\ calls' = Append(calls, [n |-> n, j |-> j, idx |-> p.idx, job |-> p2',
                             out |-> NoImage])
    /\ pc' = "engine"
    /\ UNCHANGED <<p, Request, controlnet_ext, torch_load, pp_image, init_image,
                   arg_list, n, i2i, seed, subseed, saved_load, masks, j,
                   is_processed, detections, saved, params_txt, raised, message, nested,
                   images_done>>

\* the engine runs the script hooks (process, postprocess_image) on the job it
\* was given: lines 634-636 and 708-710 decide whether their bodies run
EngineRunsHooks ==
    /\ pc = "engine"
    /\ nested' = IF hook_returns_early(p2) THEN nested ELSE nested + 1
    /\ pc' = "hooked"
    /\ UNCHANGED <<p, Request, controlnet_ext, torch_load, pp_image, Locals, calls,
                   detections, saved, params_txt, raised, message, images_done>>

\* lines 694-706: the engine returns; the next copy is prepared and, after the
\* last mask, the image slot is written and the stage returns True
EngineReturn ==
    /\ pc = "hooked"
    /\ LET out == Len(calls)
       IN  /\ calls' = [calls EXCEPT ![Len(calls)].out = out]
           /\ p2' = next_p2(i2i, out, seed, subseed, j)
           /\ j' = j + 1
           /\ pp_image' = slot_after_mask(pp_image, out, j, masks)
           /\ IF j + 1 = Len(masks)
              THEN /\ is_processed' = TRUE
                   /\ n' = n + 1
                   /\ pc' = "stage"
              ELSE /\ pc' = "mask"
                   /\ UNCHANGED <<is_processed, n>>
    /\ UNCHANGED <<p, Request, controlnet_ext, torch_load, init_image, arg_list, i2i,
                   seed, subseed, saved_load, masks, detections, saved, params_txt,
                   raised, message, nested, images_done>>

\* line 694: the engine raises; nothing catches
EngineRaise ==
    /\ pc \in {"engine", "hooked"}
    /\ pc' = after_exception("engine")
    /\ raised' = "engine"
    /\ message' = <<"engine">>
    /\ UNCHANGED <<p, Request, controlnet_ext, torch_load, pp_image, Locals, calls,
                   detections, saved, params_txt, nested, images_done>>

\* lines 725-734: after the last stage
Finish ==
    /\ pc = "stage"
    /\ n = Len(arg_list)
    /\ saved' =
          IF before_save_due(is_processed, opts)
          THEN Append(saved, [suffix |-> "-ad-before", n |-> n, image |-> init_image])
          ELSE saved
    /\ IF params_due(p)
       THEN \E ok \in BOOLEAN :
               /\ params_txt' = Append(params_txt, [idx |-> p.idx, ok |-> ok])
               /\ pc' = after_params_write(ok)
       ELSE /\ UNCHANGED params_txt
            /\ pc' = "idle"
    /\ UNCHANGED <<p, Request, controlnet_ext, torch_load, pp_image, Locals, calls,
                   detections, raised, message, nested, images_done>>

-----------------------------------------------------------------------------
(* Requests *)

Args(model, prompt, negative_prompt, cn_model) ==
    [ad_model |-> model,
     ad_prompt |-> prompt, ad_negative_prompt |-> negative_prompt,
     ad_conf |-> 30,
     ad_controlnet_model |-> cn_model, ad_controlnet_weight |-> 1,
     ad_use_inpaint_width_height |-> FALSE,
     ad_inpaint_width |-> 768, ad_inpaint_height |-> 640,
     ad_use_steps |-> FALSE, ad_steps |-> 28,
     ad_use_cfg_scale |-> FALSE, ad_cfg_scale |-> 7]

Script(stem) == [filename |-> <<"extensions", "/", "scripts", "/", stem, ".", "py">>]

Parent(prompts, negative_prompts, seeds, subseeds, sampler, scripts) ==
    [idx |-> -1, disable_adetailer |-> FALSE,
     prompt |-> "base", negative_prompt |-> "nbase",
     all_prompts |-> prompts, all_negative_prompts |-> negative_prompts,
     seed |-> 40, subseed |-> 4,
     all_seeds |-> seeds, all_subseeds |-> subseeds,
     sampler_name |-> sampler,
     width |-> 512, height |-> 512, steps |-> 20, cfg_scale |-> 5,
     scripts |-> [alwayson_scripts |-> scripts],
     script_args |-> <<"a0", "a1">>]

Registry == {<<"face_yolov8n", ".", "pt">>, <<"hand_yolov8n", ".", "pt">>}

MainStages ==
    { Args(Str("None"), "", "", "None"),
      Args(<<"face_yolov8n", ".", "pt">>, "", "", "None"),
      Args(<<"MediaPipe", "_face_full">>, "detail", "", "inpaint"),
      Args(<<"missing", ".", "pt">>, "", "blur", "None") }

\* the python value of a field as the caller sends it
Value(attr, v) == [t |-> CHOOSE t \in FieldTypes(attr) : t # "float", v |-> v]

\* the dict the caller sends for a stage
Dict(a) == [kind |-> "dict", val |-> [attr \in DOMAIN a |-> Value(attr, a[attr])]]

\* a dict whose detection threshold is out of range
BadRange ==
    [kind |-> "dict",
     val |-> [Dict(Args(<<"face_yolov8n", ".", "pt">>, "", "", "None")).val
                 EXCEPT !.ad_conf = [t |-> "int", v |-> 150]]]

\* a stage argument that is not a dict
NonMapping == [kind |-> "other", val |-> "face_yolov8n.pt"]

MainRaw == { Dict(a) : a \in MainStages } \cup {BadRange, NonMapping}

StageLists(S) == UNION { [1..len -> S] : len \in 1..MaxStages }

MainScripts ==
    <<Script("controlnet"), Script("!adetailer"), Script("wildcards"), Script("xyz_grid")>>

\* cmd_opts with no vram attribute set
NoVram == [lowvram |-> FALSE, medvram |-> FALSE]

\* <<parent job, opts.data, cn_available, platform.system(), cmd_opts>>
MainProfiles ==
    { <<Parent(<<>>, <<>>, <<>>, <<>>, "Euler a", MainScripts),
        [ad_save_previews |-> TRUE], TRUE, "Linux", NoVram, "safe.load">>,
      <<Parent(<<"p0", "p1">>, <<"n0", "n1">>, <<100, 200>>, <<10, 20>>, "PLMS",
               MainScripts),
        [ad_save_images_before |-> TRUE, ad_only_seleted_scripts |-> FALSE], FALSE,
        "Windows", [lowvram |-> FALSE, medvram |-> TRUE], "torch.load">>,
      <<Parent(<<"p0">>, <<"n0">>, <<100>>, <<10, 20>>, "UniPC", MainScripts),
        [ad_save_images_before |-> FALSE,
         ad_script_names |-> <<"wildcards", ",", " ", "!adetailer">>], TRUE,
        "Darwin", [lowvram |-> TRUE], "safe.load">> }

NoJob == [init_images |-> <<NoImage>>]

InitLocals ==
    /\ pp_image = SourceImage
    /\ init_image = NoImage
    /\ arg_list = <<>>
    /\ n = 0
    /\ i2i = NoJob
    /\ seed = 0
    /\ subseed = 0
    /\ saved_load = "unset"
    /\ masks = <<>>
    /\ j = 0
    /\ p2 = NoJob
    /\ is_processed = FALSE
    /\ calls = <<>>
    /\ detections = <<>>
    /\ saved = <<>>
    /\ params_txt = <<>>
    /\ raised = "none"
    /\ message = <<>>
    /\ nested = 0
    /\ images_done = 0
    /\ controlnet_ext = "None"
    /\ model_mapping = Registry

Init ==
    /\ \E pr \in MainProfiles :
          /\ p = pr[1]
          /\ opts = pr[2]
          /\ cn_available = pr[3]
          /\ platform_system = pr[4]
          /\ cmd_opts = pr[5]
          /\ torch_load = pr[6]
          /\ ultralytics_device = get_ultralytics_device(pr[4], pr[5])
    /\ args_ \in StageLists(MainRaw)
    /\ enabled \in BOOLEAN
    /\ pc = "idle"
    /\ InitLocals

Next ==
    \/ PostprocessImage
    \/ StageSkip
    \/ StageBegin
    \/ DetectorReturn
    \/ DetectorRaise
    \/ ProcessImages
    \/ EngineRunsHooks
    \/ EngineReturn
    \/ EngineRaise
    \/ Finish

Spec == Init /\ [][Next]_vars

-----------------------------------------------------------------------------
(* The job builder on its own: one job is built from a drawn parent job,   *)
(* stage and option set.                                                   *)

MaxList == 3

PromptPool == <<"p0", "p1", "p2", "p3", "p4">>
NegativePool == <<"n0", "n1", "n2", "n3", "n4">>

ScriptPool ==
    <<Script("controlnet"), Script("!adetailer"), Script("wildcards"),
      Script("dynamic_prompting"), Script("xyz_grid"),
      [filename |-> <<"extensions", "/", "wildcards", ".", "v2", ".", "py">>],
      [filename |-> <<"extensions", "/", " ", "wildcards", " ", ".", "py">>]>>

RECURSIVE Pick(_, _, _)
Pick(pool, S, k) ==
    IF k > Len(pool) THEN <<>>
    ELSE (IF k \in S THEN <<pool[k]>> ELSE <<>>) \o Pick(pool, S, k + 1)

\* parents and stages that differ in what get_prompt reads
PromptBuilds ==
    { <<[Parent(SubSeq(PromptPool, 1, lp), SubSeq(NegativePool, 1, ln), <<>>, <<>>,
                "Euler a", MainScripts) EXCEPT !.idx = i],
        <<Dict(Args(<<"face_yolov8n", ".", "pt">>, op, on, "None"))>>,
        [ad_save_previews |-> FALSE], FALSE, "Linux", NoVram>> :
        lp \in 0..MaxList, ln \in 0..MaxList, i \in 0..MaxIdx,
        op \in {"", "detail"}, on \in {"", "blur"} }

FilterOpts ==
    { [ad_script_names |-> <<"wildcards">>],
      [ad_only_seleted_scripts |-> TRUE, ad_script_names |-> <<"wildcards">>],
      [ad_only_seleted_scripts |-> TRUE],
      [ad_only_seleted_scripts |-> FALSE, ad_script_names |-> <<"wildcards">>],
      [ad_script_names |-> <<" ", "wildcards", " ", ",", "xyz_grid">>] }

\* parents and stages that differ in what script_filter reads
FilterBuilds ==
    { <<[Parent(<<"p0">>, <<"n0">>, <<100>>, <<10>>, "PLMS", Pick(ScriptPool, S, 1))
            EXCEPT !.idx = 0],
        <<Dict(Args(<<"face_yolov8n", ".", "pt">>, "", "", cn))>>,
        o, av, "Linux", NoVram>> :
        S \in SUBSET (1..Len(ScriptPool)), cn \in {"None", "inpaint"},
        o \in FilterOpts, av \in BOOLEAN }

\* cmd_opts with any of the two vram attributes present, set or not
VramOpts == UNION { [S -> BOOLEAN] : S \in SUBSET {"lowvram", "medvram"} }

\* environments that differ in what get_ultralytics_device reads
DeviceBuilds ==
    { <<[Parent(<<"p0">>, <<"n0">>, <<100>>, <<10>>, "Euler a", MainScripts)
            EXCEPT !.idx = 0],
        <<Dict(Args(<<"face_yolov8n", ".", "pt">>, "", "", "None"))>>,
        [ad_save_previews |-> FALSE], FALSE, sys, co>> :
        sys \in {"Darwin", "Linux", "Windows"}, co \in VramOpts }

\* what a caller may send as one stage argument
RawPool ==
    { Dict(Args(<<"face_yolov8n", ".", "pt">>, "detail", "", "None")),
      [kind |-> "dict", val |-> [ad_model |-> [t |-> "str", v |-> <<"hand_yolov8n", ".", "pt">>]]],
      BadRange,
      [kind |-> "dict", val |-> [ad_model |-> [t |-> "str", v |-> <<"face_yolov8n", ".", "pt">>],
                                 ad_conf |-> [t |-> "str", v |-> "high"]]],
      [kind |-> "dict", val |-> [ad_model |-> [t |-> "str", v |-> <<"face_yolov8n", ".", "pt">>],
                                 ad_steps |-> [t |-> "NoneType", v |-> "None"]]],
      NonMapping,
      [kind |-> "bool", val |-> FALSE] }

EnableFlag == [kind |-> "bool", val |-> TRUE]

\* argument tuples with and without the leading enable flag
ArgsBuilds ==
    { <<[Parent(<<"p0">>, <<"n0">>, <<100>>, <<10>>, "Euler a", MainScripts)
            EXCEPT !.idx = 0],
        IF flag THEN <<EnableFlag>> \o l ELSE l,
        [ad_save_previews |-> FALSE], FALSE, "Linux", NoVram>> :
        l \in UNION { [1..len -> RawPool] : len \in 1..MaxList }, flag \in BOOLEAN }

SeedPool == <<100, 200, 300, 400, 500>>
SubseedPool == <<10, 20, 30, 40, 50>>

\* parents and stages that differ in what get_seed reads, and in the prompts
SeedBuilds ==
    { <<[Parent(SubSeq(PromptPool, 1, lp), SubSeq(NegativePool, 1, lp),
                SubSeq(SeedPool, 1, ls), SubSeq(SubseedPool, 1, lt),
                "Euler a", MainScripts) EXCEPT !.idx = i],
        <<Dict(Args(<<"face_yolov8n", ".", "pt">>, op, "", "None"))>>,
        [ad_save_previews |-> FALSE], FALSE, "Linux", NoVram>> :
        lp \in {0, MaxList}, ls \in 0..MaxList, lt \in 0..MaxList, i \in 0..MaxIdx,
        op \in {"", "detail"} }

\* stages that differ in the three override flags
OverrideBuilds ==
    { <<[Parent(<<"p0">>, <<"n0">>, <<100>>, <<10>>, "Euler a", MainScripts)
            EXCEPT !.idx = 0, !.height = 384],
        <<Dict([Args(<<"face_yolov8n", ".", "pt">>, "", "", "None")
                  EXCEPT !.ad_use_inpaint_width_height = wh,
                         !.ad_use_steps = st, !.ad_use_cfg_scale = cfg])>>,
        [ad_save_previews |-> FALSE], FALSE, "Linux", NoVram>> :
        wh \in BOOLEAN, st \in BOOLEAN, cfg \in BOOLEAN }

InitBuild ==
    /\ \E b \in PromptBuilds \cup FilterBuilds \cup DeviceBuilds \cup ArgsBuilds
                  \cup SeedBuilds \cup OverrideBuilds :
          /\ p = b[1]
          /\ args_ = b[2]
          /\ opts = b[3]
          /\ cn_available = b[4]
          /\ platform_system = b[5]
          /\ cmd_opts = b[6]
    /\ torch_load = "safe.load"
    /\ ultralytics_device = "unset"
    /\ enabled = TRUE
    /\ pc = "new"
    /\ InitLocals

\* __init__, lines 96-99
Construct ==
    /\ pc = "new"
    /\ ultralytics_device' = get_ultralytics_device(platform_system, cmd_opts)
    /\ pc' = "args"
    /\ UNCHANGED <<p, opts, args_, enabled, cn_available, model_mapping,
                   platform_system, cmd_opts, controlnet_ext, torch_load, pp_image,
                   Locals, calls, detections, saved, params_txt, raised, message, nested,
                   images_done>>

\* arg_list = self.get_args(*args_), line 717
GetArgs ==
    /\ pc = "args"
    /\ LET r == get_args(args_)
       IN  IF r.ok
           THEN /\ arg_list' = r.list
                /\ pc' = "build"
                /\ UNCHANGED <<raised, message>>
           ELSE /\ pc' = after_exception(r.error)
                /\ raised' = r.error
                /\ message' = r.message
                /\ UNCHANGED arg_list
    /\ UNCHANGED <<p, Request, controlnet_ext, torch_load, pp_image, init_image, n,
                   i2i, seed, subseed, saved_load, masks, j, p2, is_processed, calls,
                   detections, saved, params_txt, nested, images_done>>

\* get_i2i_p(p, args, pp.image), lines 558-609
BuildJob ==
    /\ pc = "build"
    /\ arg_list # <<>>
    /\ i2i' = get_i2i_p(p, opts, arg_list[1], pp_image, cn_available)
    /\ p' = parent_after_get_i2i_p(p, opts, arg_list[1], pp_image, cn_available)
    /\ controlnet_ext' =
          IF arg_list[1].ad_controlnet_model # "None" THEN "ControlNetExt"
          ELSE controlnet_ext
    /\ pc' = "built"
    /\ UNCHANGED <<Request, torch_load, pp_image, init_image, arg_list, n, seed,
                   subseed, saved_load, masks, j, p2, is_processed, calls,
                   detections, saved, params_txt, raised, message, nested, images_done>>

NextBuild == Construct \/ GetArgs \/ BuildJob

SpecBuild == InitBuild /\ [][NextBuild]_vars

-----------------------------------------------------------------------------
(* Properties *)

\* the (stage, mask) pairs of the engine calls that the detections logged
\* so far call for
RECURSIVE ExpectedCalls(_)
ExpectedCalls(dets) ==
    IF dets = <<>> THEN <<>>
    ELSE [k \in 1..(IF Head(dets).nmasks > 0 THEN Head(dets).nmasks ELSE 0) |->
             <<Head(dets).n, k - 1>>] \o ExpectedCalls(Tail(dets))

\* the 0-based positions of the stages whose selector is not "None"
RECURSIVE NonSkipped(_, _)
NonSkipped(al, k) ==
    IF k > Len(al) THEN <<>>
    ELSE (IF al[k].ad_model # <<"None">> THEN <<k - 1>> ELSE <<>>) \o NonSkipped(al, k + 1)

\* the image has been processed to the end of postprocess_image
Completed == pc = "idle" /\ images_done > 0 /\ enabled

BaseSeed(q) ==
    IF q.all_seeds = <<>> THEN q.seed ELSE q.all_seeds[(q.idx % Len(q.all_seeds)) + 1]

BaseSubseed(q) ==
    IF q.all_subseeds = <<>> THEN q.subseed
    ELSE q.all_subseeds[(q.idx % Len(q.all_subseeds)) + 1]

BeforeSaves == {k \in 1..Len(saved) : saved[k].suffix = "-ad-before"}

SomeCallSucceeded == \E k \in 1..Len(calls) : calls[k].out # NoImage

\* C1: the engine is called once per processed mask, in stage order and in
\* mask order within a stage; the first call takes the source image, every
\* later call the output of the call before it, and the image left in the
\* slot after the last stage is the output of the last call.
C1_CallsThreadImages ==
    /\ Len(calls) <= Len(ExpectedCalls(detections))
    /\ \A k \in 1..Len(calls) :
          /\ <<calls[k].n, calls[k].j>> = ExpectedCalls(detections)[k]
          /\ calls[k].job.init_images =
                <<IF k = 1 THEN SourceImage ELSE calls[k - 1].out>>
          /\ k < Len(calls) => calls[k].out # NoImage
    /\ \A k, m \in 1..Len(calls) : k # m => calls[k].out # calls[m].out
    /\ Completed =>
          /\ Len(calls) = Len(ExpectedCalls(detections))
          /\ [k \in 1..Len(detections) |-> detections[k].n] = NonSkipped(arg_list, 1)
          /\ pp_image = IF calls = <<>> THEN SourceImage ELSE calls[Len(calls)].out

\* C1 witness: stage 1 gave two masks, stage 2 one: three calls were made
C1_Witness ==
    /\ Completed
    /\ Len(calls) = 3
    /\ [k \in 1..3 |-> <<calls[k].n, calls[k].j>>] = <<<<0, 0>>, <<0, 1>>, <<1, 0>>>>
    /\ pp_image = calls[3].out

\* C2: the j-th engine call of a stage (j counted from 0 in the log) is made
\* with seed S + j and subseed T + j, S and T the base seed and subseed
\* selected for the current image.
C2_SeedsAdvanceByOne ==
    \A k \in 1..Len(calls) :
        /\ calls[k].job.seed = BaseSeed(p) + calls[k].j
        /\ calls[k].job.subseed = BaseSubseed(p) + calls[k].j

\* C2 witness: a second job of a stage ran with a seed taken from the
\* per-image list, advanced by one
C2_Witness ==
    \E k \in 1..Len(calls) :
        /\ calls[k].j = 1
        /\ p.all_seeds # <<>>
        /\ calls[k].job.seed = p.all_seeds[p.idx + 1] + 1
        /\ calls[k].out # NoImage

\* C3: while no detection has yielded a mask, no engine call has been made
\* and the image slot holds the source image; a detection that yields no
\* mask makes no call, leaves the image alone, raises nothing and moves on to
\* the next stage.
C3_NothingDetectedIsNoOp ==
    /\ [](( \A k \in 1..Len(detections) : detections[k].nmasks <= 0 ) =>
             (calls = <<>> /\ pp_image = SourceImage))
    /\ [][ (pc = "detect" /\ detections' # <<>>
              /\ detections'[Len(detections')].nmasks = 0) =>
           (/\ pc' = "stage"
            /\ n' = n + 1
            /\ raised' = "none"
            /\ UNCHANGED <<pp_image, calls, is_processed>>) ]_vars

\* C3 witness: both stages were run, neither detected anything, and the
\* hook has returned
C3_Witness ==
    /\ Completed
    /\ Len(detections) = 2
    /\ \A k \in 1..2 : detections[k].nmasks = 0
    /\ calls = <<>>
    /\ pp_image = SourceImage

\* C4: every job handed to the engine, and the stage's job it is copied from,
\* carries the marker; no hook body runs on such a job; the engine calls of
\* one image are bounded by the masks of its stages.
C4_NoRecursion ==
    /\ \A k \in 1..Len(calls) : calls[k].job.disable_adetailer
    /\ pc \in {"detect", "mask", "engine", "hooked"} => i2i.disable_adetailer
    /\ pc \in {"mask", "engine", "hooked"} => p2.disable_adetailer
    /\ nested = 0
    /\ Len(calls) <= Len(arg_list) * MaxMasks

\* C4 witness: the engine has run the hooks on a job of the pipeline
C4_Witness ==
    /\ pc = "hooked"
    /\ calls[Len(calls)].job.disable_adetailer
    /\ Len(calls) = 2
    /\ nested = 0

\* C5: the first job of every stage uses the base seed and subseed of the
\* current image, whatever earlier stages processed.
C5_SeedRestartsPerStage ==
    \A k \in 1..Len(calls) :
        calls[k].j = 0 =>
            /\ calls[k].job.seed = BaseSeed(p)
            /\ calls[k].job.subseed = BaseSubseed(p)

\* C5 witness: the second stage starts at the base seed after a first stage
\* that advanced the seed
C5_Witness ==
    /\ Len(calls) = 3
    /\ calls[2].n = 0 /\ calls[2].job.seed = BaseSeed(p) + 1
    /\ calls[3].n = 1 /\ calls[3].job.seed = BaseSeed(p)
    /\ p.all_seeds # <<>> /\ p.idx = 1

\* C6: an exception of the detector or of the engine leaves postprocess_image:
\* the hook stops at the failing call, which stays the last call, nothing is
\* called, saved or written afterwards, and neither the "before" image nor
\* params.txt has been written for the image.
C6_ExceptionsPropagate ==
    /\ [](raised # "none" => pc = "raised")
    /\ []((pc = "raised" /\ raised = "detector") =>
            detections # <<>> /\ detections[Len(detections)].nmasks = -1)
    /\ []((pc = "raised" /\ raised = "engine") =>
            calls # <<>> /\ calls[Len(calls)].out = NoImage)
    /\ [](pc = "raised" =>
            (/\ BeforeSaves = {}
             /\ \A k \in 1..Len(params_txt) : params_txt[k].idx # p.idx))
    /\ [][ raised # "none" => UNCHANGED vars ]_vars

\* C6 witness: the engine raised on the second call of an image for which the
\* "before" image is enabled and params.txt is due
C6_Witness ==
    /\ pc = "raised"
    /\ raised = "engine"
    /\ Len(calls) = 2
    /\ OptGet(opts, "ad_save_images_before", FALSE)
    /\ p.idx = Len(p.all_prompts) - 1

\* C9: a stage whose selector is "None" only advances the stage counter: no
\* job, detector call, save or engine call, the image unchanged; the stages
\* after it run under their own positions.
C9_SkipSentinel ==
    /\ [][ (pc = "stage" /\ n < Len(arg_list) /\ arg_list[n + 1].ad_model = <<"None">>) =>
           (/\ n' = n + 1
            /\ pc' = "stage"
            /\ UNCHANGED <<i2i, p2, detections, calls, saved, pp_image, torch_load,
                           controlnet_ext, is_processed, raised, message>>) ]_vars
    /\ [](\A k \in 1..Len(detections) :
             /\ arg_list[detections[k].n + 1].ad_model = detections[k].model
             /\ detections[k].model # <<"None">>)
    /\ [](Completed =>
             [k \in 1..Len(detections) |-> detections[k].n] = NonSkipped(arg_list, 1))

\* C9 witness: the second of three stages was skipped and the third ran as
\* stage 2 (0-based) and regenerated the image
C9_Witness ==
    /\ Completed
    /\ Len(arg_list) = 3
    /\ arg_list[1].ad_model # <<"None">>
    /\ arg_list[2].ad_model = <<"None">>
    /\ [k \in 1..Len(detections) |-> detections[k].n] = <<0, 2>>
    /\ calls # <<>> /\ calls[Len(calls)].n = 2
    /\ pp_image = calls[Len(calls)].out

\* C10 as stated: once the hook is over, the "before" image has been saved
\* if and only if the option is on and some engine call succeeded.
C10_Original ==
    (pc \in {"idle", "raised"} /\ images_done > 0) =>
        (BeforeSaves # {} <=>
            (OptGet(opts, "ad_save_images_before", FALSE) /\ SomeCallSucceeded))

\* C10 amended: the "before" image is saved if and only if the option is on,
\* some engine call succeeded and every stage finished without an exception;
\* it is saved once, after the last stage, and is the image the hook was
\* entered with.
C10_BeforeSnapshot ==
    /\ Cardinality(BeforeSaves) <= 1
    /\ \A k \in BeforeSaves : saved[k].image = SourceImage /\ k = Len(saved)
    /\ BeforeSaves # {} => pc = "idle"
    /\ (pc \in {"idle", "raised"} /\ images_done > 0) =>
          (BeforeSaves # {} <=>
              (/\ OptGet(opts, "ad_save_images_before", FALSE)
               /\ SomeCallSucceeded
               /\ pc = "idle"))

\* C10 witness: the snapshot of the source image was saved after the image
\* slot had been replaced
C10_Witness ==
    /\ Completed
    /\ BeforeSaves # {}
    /\ pp_image # SourceImage
    /\ saved[Len(saved)].image = SourceImage

StemsOf(scripts) == {Stem(scripts[k].filename) : k \in 1..Len(scripts)}

AllowListPolicyOn == OptGet(opts, "ad_only_seleted_scripts", TRUE)

\* C7: in a built job the prompt is the stage's override when it is not
\* empty, else element (i mod L) of a non-empty per-image list of length L,
\* else the base prompt; the negative prompt likewise from its own override,
\* list and length.
C7_PromptResolution ==
    pc = "built" =>
        LET a == arg_list[1]
            i == p.idx
            L == Len(p.all_prompts)
            NL == Len(p.all_negative_prompts)
        IN  /\ i2i.prompt =
                  IF a.ad_prompt # "" THEN a.ad_prompt
                  ELSE IF L > 0 THEN p.all_prompts[(i % L) + 1]
                  ELSE p.prompt
            /\ i2i.negative_prompt =
                  IF a.ad_negative_prompt # "" THEN a.ad_negative_prompt
                  ELSE IF NL > 0 THEN p.all_negative_prompts[(i % NL) + 1]
                  ELSE p.negative_prompt

\* C7 witness: three prompts, image index 5, no override: element 2 is used,
\* while the negative prompt comes from a list of another length
C7_Witness ==
    /\ pc = "built"
    /\ p.idx = 5
    /\ Len(p.all_prompts) = 3
    /\ Len(p.all_negative_prompts) = 2
    /\ arg_list[1].ad_prompt = ""
    /\ arg_list[1].ad_negative_prompt = ""
    /\ i2i.prompt = "p2"
    /\ i2i.negative_prompt = "n1"

\* C8 as stated: with the allow-list policy on, allow-list "wildcards" and a
\* controlnet model selected, the built job's always-on extensions are
\* exactly wildcards and controlnet, whatever the parent job had.
C8_Original ==
    (/\ pc = "built"
     /\ AllowListPolicyOn
     /\ OptGet(opts, "ad_script_names", DefaultScriptNames) = <<"wildcards">>
     /\ arg_list[1].ad_controlnet_model # "None") =>
        StemsOf(i2i.scripts.alwayson_scripts) = {<<"wildcards">>, <<"controlnet">>}

\* C8 amended: under the same conditions the built job's always-on
\* extensions are exactly those of wildcards and controlnet that the parent
\* job had, whatever else the parent job had.
C8_ExtensionFilter ==
    (/\ pc = "built"
     /\ AllowListPolicyOn
     /\ OptGet(opts, "ad_script_names", DefaultScriptNames) = <<"wildcards">>
     /\ arg_list[1].ad_controlnet_model # "None") =>
        /\ StemsOf(i2i.scripts.alwayson_scripts) =
              {<<"wildcards">>, <<"controlnet">>} \cap StemsOf(p.scripts.alwayson_scripts)
        /\ \A k \in 1..Len(i2i.scripts.alwayson_scripts) :
              i2i.scripts.alwayson_scripts[k] \in Range(p.scripts.alwayson_scripts)

\* C8 witness: the parent had six extensions, the built job keeps two
C8_Witness ==
    /\ pc = "built"
    /\ AllowListPolicyOn
    /\ OptGet(opts, "ad_script_names", DefaultScriptNames) = <<"wildcards">>
    /\ arg_list[1].ad_controlnet_model = "inpaint"
    /\ Len(p.scripts.alwayson_scripts) = 6
    /\ StemsOf(i2i.scripts.alwayson_scripts) = {<<"wildcards">>, <<"controlnet">>}

\* C11: the image index is 0 for the first image and one more for every
\* postprocess_image call of an enabled pipeline; it changes only at the entry
\* of the hook, before any stage, so every detection and every job of one
\* image is made under the same index; a hook that returns early and the
\* sub-jobs leave it alone.
C11_ImageIndex ==
    /\ [](p.idx = IF enabled THEN images_done - 1 ELSE -1)
    /\ [](/\ \A k \in 1..Len(calls) : calls[k].idx = p.idx
          /\ \A k \in 1..Len(detections) : detections[k].idx = p.idx)
    /\ [][ p.idx' # p.idx =>
           (/\ pc = "idle" /\ enabled /\ ~p.disable_adetailer
            /\ p.idx' = p.idx + 1
            /\ calls' = <<>> /\ detections' = <<>>) ]_vars

\* C11 witness: the second image was processed under index 1 by two stages
C11_Witness ==
    /\ Completed
    /\ images_done = 2
    /\ p.idx = 1
    /\ Len(detections) = 2
    /\ Len(calls) >= 2
    /\ calls[1].idx = 1 /\ calls[Len(calls)].idx = 1 /\ calls[Len(calls)].n = 1

VramSet(copts) ==
    \/ ("lowvram" \in DOMAIN copts /\ copts["lowvram"])
    \/ ("medvram" \in DOMAIN copts /\ copts["medvram"])

\* C12 as stated: the device is "cpu" on Darwin, else "cpu" under lowvram or
\* medvram, else "" (autodetect).
C12_Original ==
    pc # "new" =>
        ultralytics_device =
            IF platform_system = "Darwin" THEN "cpu"
            ELSE IF VramSet(cmd_opts) THEN "cpu"
            ELSE ""

\* C12 amended: the device is "" (autodetect) on Darwin whatever the memory
\* options, else "cpu" under lowvram or medvram, else "".
C12_DeviceSelection ==
    pc # "new" =>
        /\ ultralytics_device \in {"", "cpu"}
        /\ ultralytics_device = "cpu" <=>
              (platform_system # "Darwin" /\ VramSet(cmd_opts))

\* C12 witness: on Darwin with lowvram set the device is left to autodetect
C12_Witness ==
    /\ pc = "build"
    /\ platform_system = "Darwin"
    /\ cmd_opts = [lowvram |-> TRUE, medvram |-> FALSE]
    /\ ultralytics_device = ""

\* C13: the params.txt write is attempted at the end of postprocess_image
\* exactly when the image index is the number of prompts less one, at most
\* once in a request and whether or not a region was regenerated; whether the
\* write succeeds or fails the hook returns, with the same image and index.
C13_ParamsTxt ==
    /\ [](/\ Len(params_txt) <= 1
          /\ \A k \in 1..Len(params_txt) : params_txt[k].idx = Len(p.all_prompts) - 1)
    /\ [](Completed =>
            ((\E k \in 1..Len(params_txt) : params_txt[k].idx = p.idx)
                <=> p.idx = Len(p.all_prompts) - 1))
    /\ [][ (pc = "stage" /\ n = Len(arg_list)) =>
           (/\ pc' = "idle"
            /\ raised' = "none"
            /\ UNCHANGED <<p, pp_image, calls>>
            /\ (params_txt' # params_txt <=> p.idx = Len(p.all_prompts) - 1)) ]_vars

\* C13 witness: the write failed on the first image; the hook returned and
\* the second image was processed without another attempt
C13_Witness ==
    /\ Completed
    /\ images_done = 2
    /\ params_txt = <<[idx |-> 0, ok |-> FALSE]>>
    /\ raised = "none"
    /\ calls # <<>>

\* a selector whose name starts with "mediapipe" in any case
GeometricSelector(name) == name # <<>> /\ name[1] \in {"mediapipe", "MediaPipe"}

\* C14: a selector that is neither "None" nor a mediapipe name and is not
\* registered fails with a ValueError naming it and all registered names,
\* before any detector or engine call of its stage; a mediapipe name, in any
\* case, goes to mediapipe_predict without registry lookup and without a
\* device argument, any other detected name is registered and gets the device.
C14_ModelLookup ==
    /\ []((raised = "ValueError" /\ message # <<>> /\ message[1] = "Model not found") =>
            LET a == arg_list[n + 1]
            IN  /\ message = <<"Model not found", a.ad_model, model_mapping>>
                /\ a.ad_model \notin model_mapping
                /\ ~GeometricSelector(a.ad_model)
                /\ a.ad_model # <<"None">>
                /\ \A k \in 1..Len(detections) : detections[k].n # n
                /\ \A k \in 1..Len(calls) : calls[k].n # n)
    /\ [](\A k \in 1..Len(detections) :
            IF GeometricSelector(detections[k].model)
            THEN /\ detections[k].predictor = "mediapipe_predict"
                 /\ detections[k].kwargs = {}
            ELSE /\ detections[k].predictor = "ultralytics_predict"
                 /\ detections[k].model \in model_mapping
                 /\ detections[k].kwargs = {<<"device", ultralytics_device>>})
    /\ [][ (/\ pc = "stage" /\ n < Len(arg_list)
            /\ arg_list[n + 1].ad_model # <<"None">>
            /\ ~GeometricSelector(arg_list[n + 1].ad_model)
            /\ arg_list[n + 1].ad_model \notin model_mapping) =>
           (pc' = "raised" /\ raised' = "ValueError" /\ UNCHANGED <<detections, calls>>) ]_vars

\* C14 witness: after a first stage that regenerated the image, the second
\* stage names a model that is not registered
C14_Witness ==
    /\ pc = "raised"
    /\ raised = "ValueError"
    /\ n = 1
    /\ message = <<"Model not found", <<"missing", ".", "pt">>, Registry>>
    /\ Len(detections) = 1 /\ detections[1].n = 0
    /\ calls # <<>>
    /\ GeometricSelector(detections[1].model)
    /\ detections[1].kwargs = {}

\* the stage arguments of a call: everything after a leading bool
StageArguments(a) ==
    [k \in 1..(Len(a) - (IF a[1].kind = "bool" THEN 1 ELSE 0)) |->
        a[k + (IF a[1].kind = "bool" THEN 1 ELSE 0)]]

OrdinalNames == <<<<1, "st">>, <<2, "nd">>, <<3, "rd">>, <<4, "th">>, <<5, "th">>>>

\* C15: get_args fails at the first stage argument that is not a dict
\* (TypeError with the ordinal and the payload) or does not validate
\* (ValueError with the ordinal and every recognized field with its value,
\* or DEFAULT when it is missing or None, and its type); the ordinal counts
\* from 1 and does not count a leading bool, so the outcome is the same with
\* and without the flag (a bool in the first place is always taken as the
\* flag); without such an argument there is one ArgumentSet per stage argument.
C15_GetArgsErrors ==
    pc \in {"build", "built", "raised"} =>
        LET s == StageArguments(args_)
            Bad(x) == x.kind # "dict" \/ ~validates(x.val)
        IN  /\ (\A k \in 1..Len(s) : ~Bad(s[k])) =>
                  /\ raised = "none"
                  /\ Len(arg_list) = Len(s)
                  /\ \A k \in 1..Len(s) : \A attr \in DOMAIN s[k].val :
                        arg_list[k][attr] = s[k].val[attr].v
            /\ \A k \in 1..Len(s) :
                  (Bad(s[k]) /\ \A m \in 1..(k - 1) : ~Bad(s[m])) =>
                      /\ pc = "raised"
                      /\ message[2] = OrdinalNames[k]
                      /\ IF s[k].kind # "dict"
                         THEN /\ raised = "TypeError"
                              /\ message[1] = "Non-mapping arguments are sent"
                              /\ message[3] = s[k]
                         ELSE /\ raised = "ValueError"
                              /\ message[1] = "ValidationError when validating"
                              /\ Len(message[3]) = Len(ALL_ARGS_attrs)
                              /\ \A i \in 1..Len(ALL_ARGS_attrs) :
                                    LET attr == ALL_ARGS_attrs[i]
                                        line == message[3][i]
                                        d == s[k].val
                                    IN  /\ line[1] = attr
                                        /\ IF attr \notin DOMAIN d
                                           THEN line[2] = "DEFAULT"
                                           ELSE /\ line[3] = d[attr].t
                                                /\ d[attr].t = "NoneType" => line[2] = "DEFAULT"
                                                /\ d[attr].t = "str" => line[2] = <<"'", d[attr].v, "'">>
                                                /\ d[attr].t \notin {"NoneType", "str"} =>
                                                      line[2] = <<d[attr].v>>
            /\ (args_[1] = EnableFlag /\ Len(args_) > 1 /\ args_[2].kind # "bool") =>
                  get_args(args_) = get_args(Tail(args_))

\* C15 witness: behind the enable flag and a valid first stage, the second
\* stage has a detection threshold out of range
C15_Witness ==
    /\ pc = "raised"
    /\ raised = "ValueError"
    /\ Len(args_) = 3
    /\ args_[1] = EnableFlag
    /\ validates(args_[2].val)
    /\ args_[3] = BadRange
    /\ message[2] = <<2, "nd">>
    /\ message[3][4] = <<"ad_conf", <<150>>, "int">>

\* C16: in a built job the seed is element (i mod len) of the per-image seed
\* list, or the base seed when that list is empty, and the subseed is chosen
\* likewise from the subseed list by that list's own length, whatever the
\* other list, the prompt lists and the stage's prompt override are.
C16_SeedSelection ==
    pc = "built" =>
        /\ i2i.seed = IF Len(p.all_seeds) = 0 THEN p.seed
                      ELSE p.all_seeds[(p.idx % Len(p.all_seeds)) + 1]
        /\ i2i.subseed = IF Len(p.all_subseeds) = 0 THEN p.subseed
                         ELSE p.all_subseeds[(p.idx % Len(p.all_subseeds)) + 1]

\* C16 witness: index 4 with two seeds and three subseeds, no prompt list and
\* a stage prompt override
C16_Witness ==
    /\ pc = "built"
    /\ p.idx = 4
    /\ Len(p.all_seeds) = 2 /\ Len(p.all_subseeds) = 3
    /\ p.all_prompts = <<>>
    /\ arg_list[1].ad_prompt = "detail"
    /\ i2i.seed = p.all_seeds[1]
    /\ i2i.subseed = p.all_subseeds[2]

\* the comma-separated names of the allow-list: its maximal comma-free pieces
AllowListPieces(s) ==
    { SubSeq(s, ab[1], ab[2]) :
        ab \in { x \in (1..(Len(s) + 1)) \X (0..Len(s)) :
                   /\ x[1] <= x[2] + 1
                   /\ \A k \in x[1]..x[2] : s[k] # ","
                   /\ (x[1] = 1 \/ s[x[1] - 1] = ",")
                   /\ (x[2] = Len(s) \/ s[x[2] + 1] = ",") } }

\* a name without its surrounding whitespace
Trimmed(x) ==
    LET Ink == {k \in 1..Len(x) : x[k] # " "}
    IN  IF Ink = {} THEN <<>>
        ELSE SubSeq(x, CHOOSE a \in Ink : \A k \in Ink : a <= k,
                       CHOOSE b \in Ink : \A k \in Ink : k <= b)

KeptNames ==
    LET pieces == AllowListPieces(OptGet(opts, "ad_script_names", DefaultScriptNames))
    IN  pieces \cup {Trimmed(x) : x \in pieces}
            \cup (IF arg_list[1].ad_controlnet_model # "None" THEN {<<"controlnet">>} ELSE {})

KeptName(script) == Stem(script.filename) \in KeptNames

\* C17: with the allow-list policy on, the built job's always-on extensions
\* are those of the parent job whose name is a comma-separated name of the
\* allow-list, as written or stripped, or is controlnet when a controlnet model
\* is selected, in the parent's order and nothing else; with the policy off
\* they are the parent's.
C17_StageFilter ==
    pc = "built" =>
        /\ Range(i2i.scripts.alwayson_scripts) \subseteq Range(p.scripts.alwayson_scripts)
        /\ IF AllowListPolicyOn
           THEN i2i.scripts.alwayson_scripts =
                    SelectSeq(p.scripts.alwayson_scripts, KeptName)
           ELSE i2i.scripts = p.scripts

\* C17 witness: the allow-list " wildcards ,xyz_grid" and a controlnet model
\* keep four of the parent's seven extensions
C17_Witness ==
    /\ pc = "built"
    /\ "ad_only_seleted_scripts" \notin DOMAIN opts
    /\ OptGet(opts, "ad_script_names", DefaultScriptNames) =
          <<" ", "wildcards", " ", ",", "xyz_grid">>
    /\ arg_list[1].ad_controlnet_model = "inpaint"
    /\ p.scripts.alwayson_scripts = ScriptPool
    /\ i2i.scripts.alwayson_scripts =
          <<ScriptPool[1], ScriptPool[3], ScriptPool[5], ScriptPool[7]>>

\* C18: in a built job width and height are both the stage's when its
\* flag is set and both the parent's otherwise, the steps are the stage's iff
\* its steps flag is set, the cfg scale is the stage's iff its cfg flag is set.
C18_OverrideFallback ==
    pc = "built" =>
        LET a == arg_list[1]
        IN  /\ <<i2i.width, i2i.height>> \in
                  {<<a.ad_inpaint_width, a.ad_inpaint_height>>, <<p.width, p.height>>}
            /\ a.ad_use_inpaint_width_height =>
                  (i2i.width = a.ad_inpaint_width /\ i2i.height = a.ad_inpaint_height)
            /\ ~a.ad_use_inpaint_width_height =>
                  (i2i.width = p.width /\ i2i.height = p.height)
            /\ i2i.steps = IF a.ad_use_steps THEN a.ad_steps ELSE p.steps
            /\ i2i.cfg_scale = IF a.ad_use_cfg_scale THEN a.ad_cfg_scale ELSE p.cfg_scale

\* C18 witness: the dimensions and the cfg scale are overridden, the steps
\* are not
C18_Witness ==
    /\ pc = "built"
    /\ arg_list[1].ad_use_inpaint_width_height
    /\ ~arg_list[1].ad_use_steps
    /\ arg_list[1].ad_use_cfg_scale
    /\ <<i2i.width, i2i.height>> = <<768, 640>>
    /\ <<p.width, p.height>> = <<512, 384>>
    /\ i2i.steps = 20 /\ p.steps = 20 /\ arg_list[1].ad_steps = 28
    /\ i2i.cfg_scale = 7 /\ p.cfg_scale = 5

\* C19: no job handed to the engine has the sampler PLMS or UniPC; every
\* job, the first of a stage and every later copy, has Euler when the parent
\* job's sampler is one of the two, and the parent's sampler otherwise.
C19_SamplerSubstitution ==
    \A k \in 1..Len(calls) :
        /\ calls[k].job.sampler_name \notin {"PLMS", "UniPC"}
        /\ p.sampler_name \in {"PLMS", "UniPC"} => calls[k].job.sampler_name = "Euler"
        /\ p.sampler_name \notin {"PLMS", "UniPC"} =>
              calls[k].job.sampler_name = p.sampler_name

\* C19 witness: under a parent with UniPC the second copy of a stage's job
\* went to the engine with Euler
C19_Witness ==
    /\ p.sampler_name = "UniPC"
    /\ Len(calls) >= 2
    /\ calls[Len(calls)].j = 1
    /\ calls[Len(calls)].job.sampler_name = "Euler"
    /\ calls[Len(calls)].out # NoImage

\* the image in the slot when stage s starts: the output of the last engine
\* call of an earlier stage, or the source image
ImageAtStage(s) ==
    LET Earlier == {m \in 1..Len(calls) : calls[m].n < s}
    IN  IF Earlier = {} THEN SourceImage
        ELSE calls[CHOOSE m \in Earlier : \A x \in Earlier : x <= m].out

\* C20: a stage is detected at most once, on the image as the earlier stages
\* left it; every engine call of a stage comes after the stage's detection
\* returned and takes its mask from that detection, which is not redone
\* while the stage's masks are processed; after the last stage there is one
\* detection per non-skipped stage.
C20_DetectOncePerStage ==
    /\ [](\A k \in 1..Len(detections) :
            /\ \A m \in 1..(k - 1) : detections[m].n < detections[k].n
            /\ detections[k].image = ImageAtStage(detections[k].n))
    /\ [](\A k \in 1..Len(calls) :
            \E d \in 1..Len(detections) :
                /\ detections[d].n = calls[k].n
                /\ calls[k].j < detections[d].nmasks
                /\ calls[k].job.image_mask = [det |-> d, k |-> calls[k].j + 1])
    /\ [][ (pc \in {"mask", "engine", "hooked"}) =>
             (detections' = detections /\ masks' = masks) ]_vars
    /\ [](Completed =>
            [k \in 1..Len(detections) |-> detections[k].n] = NonSkipped(arg_list, 1))

\* C20 witness: the second stage was detected on the output of the second
\* job of the first stage, and its job took the first mask of that detection
C20_Witness ==
    /\ Completed
    /\ Len(detections) = 2
    /\ Len(calls) = 3
    /\ detections[1].image = SourceImage
    /\ detections[1].nmasks = 2
    /\ detections[2].image = calls[2].out
    /\ calls[2].job.image_mask = [det |-> 1, k |-> 2]
    /\ calls[3].job.image_mask = [det |-> 2, k |-> 1]

\* C21: when the engine raises in stage n, the image slot holds the image
\* stage n started with: the output of the last job of the earlier stages (or
\* the source image), and none of the outputs of stage n's own jobs; the slot
\* is written only when the last job of a stage has returned.
C21_EngineFailureKeepsStageStart ==
    /\ [](raised = "engine" =>
            /\ pp_image = ImageAtStage(n)
            /\ pp_image = detections[Len(detections)].image
            /\ detections[Len(detections)].n = n
            /\ \A k \in 1..Len(calls) : calls[k].n = n => calls[k].out # pp_image)
    /\ [][ pp_image' # pp_image =>
             \/ pc = "idle"
             \/ (pc = "hooked" /\ j + 1 = Len(masks) /\ pc' = "stage"
                 /\ pp_image' = calls'[Len(calls)].out) ]_vars

\* C21 witness: the first stage ran two jobs, the second stage's first job
\* returned and its second job raised: the slot holds the first stage's result
C21_Witness ==
    /\ raised = "engine"
    /\ n = 1
    /\ Len(calls) = 4
    /\ calls[3].n = 1 /\ calls[3].out # NoImage
    /\ calls[4].n = 1 /\ calls[4].out = NoImage
    /\ pp_image = calls[2].out
    /\ pp_image # SourceImage

\* some stage argument of the request is not a dict or does not validate
HasInvalidStage ==
    \E k \in 1..Len(StageArguments(args_)) :
        \/ StageArguments(args_)[k].kind # "dict"
        \/ ~validates(StageArguments(args_)[k].val)

\* C22: when any stage argument of the request, the last one included, is
\* not a dict or does not validate, postprocess_image raises at its entry:
\* no detector call, no engine call and no save is made for any stage, and the
\* image slot keeps the source image.
C22_ValidatedBeforeAnyStage ==
    HasInvalidStage =>
        /\ calls = <<>>
        /\ detections = <<>>
        /\ saved = <<>>
        /\ pp_image = SourceImage
        /\ arg_list = <<>>
        /\ pc \in {"idle", "raised"}
        /\ (images_done > 0 /\ enabled /\ ~p.disable_adetailer) =>
              (pc = "raised" /\ raised \in {"ValueError", "TypeError"})

\* C22 witness: two valid stages with a detector model are followed by a
\* third whose detection threshold is out of range
C22_Witness ==
    /\ pc = "raised"
    /\ raised = "ValueError"
    /\ Len(args_) = 3
    /\ args_[1].kind = "dict" /\ validates(args_[1].val)
    /\ args_[1].val.ad_model.v # <<"None">>
    /\ args_[2].kind = "dict" /\ validates(args_[2].val)
    /\ args_[3] = BadRange
    /\ message[2] = <<3, "rd">>
    /\ calls = <<>> /\ detections = <<>>
    /\ pp_image = SourceImage

\* C23: no step changes the parent job's always-on extensions, extension
\* arguments, prompts, seeds or sampler, and its image index changes only at
\* the entry of the hook: after any number of built jobs the parent job is the
\* one the request came with; every job handed to the engine has the parent's
\* extension arguments at the head of its own, and extensions of the parent's.
C23_ParentJobUntouched ==
    /\ [][ /\ p'.scripts = p.scripts
           /\ p'.script_args = p.script_args
           /\ p'.prompt = p.prompt /\ p'.all_prompts = p.all_prompts
           /\ p'.negative_prompt = p.negative_prompt
           /\ p'.all_negative_prompts = p.all_negative_prompts
           /\ p'.seed = p.seed /\ p'.all_seeds = p.all_seeds
           /\ p'.subseed = p.subseed /\ p'.all_subseeds = p.all_subseeds
           /\ p'.sampler_name = p.sampler_name
           /\ pc # "idle" => p'.idx = p.idx ]_vars
    /\ [](\E pr \in MainProfiles : [p EXCEPT !.idx = -1] = pr[1])
    /\ [](\A k \in 1..Len(calls) :
            /\ Len(calls[k].job.script_args) >= Len(p.script_args)
            /\ SubSeq(calls[k].job.script_args, 1, Len(p.script_args)) = p.script_args
            /\ Range(calls[k].job.scripts.alwayson_scripts)
                  \subseteq Range(p.scripts.alwayson_scripts))

\* C23 witness: the second stage's second job has filtered extensions and
\* controlnet arguments of its own, the parent job has what it came with
C23_Witness ==
    /\ Len(calls) >= 3
    /\ calls[Len(calls)].n = 1
    /\ calls[Len(calls)].j = 1
    /\ calls[Len(calls)].job.script_args # p.script_args
    /\ calls[Len(calls)].job.scripts # p.scripts
    /\ p.scripts.alwayson_scripts = MainScripts
    /\ p.script_args = <<"a0", "a1">>

\* the loader the request found in place
OriginalLoad == (CHOOSE pr \in MainProfiles : [p EXCEPT !.idx = -1] = pr[1])[6]

\* C24: torch.load is unsafe_torch_load exactly while a detector call is in
\* progress; at every other point, in particular during every engine call,
\* after a detector call that returned or raised and after postprocess_image,
\* it is the loader that was in place before.
C24_LoaderScopedToDetector ==
    /\ (torch_load = "unsafe_torch_load") <=> (pc = "detect")
    /\ pc # "detect" => torch_load = OriginalLoad
    /\ pc = "detect" => saved_load = OriginalLoad
    /\ pc \in {"engine", "hooked", "idle", "raised"} => torch_load = OriginalLoad

\* C24 witness: the first stage's detector returned and its jobs ran, the
\* second stage's detector raised, and the loader in place is back
C24_Witness ==
    /\ pc = "raised"
    /\ raised = "detector"
    /\ Len(detections) = 2
    /\ detections[1].nmasks > 0
    /\ calls # <<>>
    /\ OriginalLoad = "torch.load"
    /\ torch_load = "torch.load"

=============================================================================
